---------------------------- MODULE Spec2Model ----------------------------
(***************************************************************************)
(* AP FRQ grading service (src/main.py): the model invoker call_ollama,   *)
(* the response parser parse_grading_response and the two endpoints       *)
(* POST /grade (grade_frq) and POST /grade/batch (grade_batch).           *)
(*                                                                         *)
(* Representation.                                                         *)
(*  - A Python float is a record [ty, n, d, s]: ty = "num" is the          *)
(*    rational n/d (d > 0), ty = "nan", "inf", "ninf" are the IEEE         *)
(*    specials json.loads accepts (NaN, Infinity, -Infinity). The same     *)
(*    record shape carries the other JSON scalars: ty = "str" (text s),    *)
(*    ty = "null", and ty = "none" for Python's None / an absent value.    *)
(*    Binary rounding of floats is not modelled: arithmetic is exact.      *)
(*  - A backend reply text is a sequence of tokens. "lb" and "rb" are the  *)
(*    characters { and }, every other token is a brace-free chunk of       *)
(*    characters: "comma", a JSON member with a scalar value ("mem",       *)
(*    "key": value), a JSON key awaiting an object ("key", "key":), or     *)
(*    free text ("txt"). The two regular expressions and json.loads are    *)
(*    computed over these tokens.                                          *)
(*  - The timestamp field of GradingResponse (datetime.utcnow()) is left   *)
(*    out of the result record.                                            *)
(*  - Libraries: GradingResponse(...) validates its fields against the     *)
(*    declared types (feedback: str, rubric_alignment: Dict[str, float],   *)
(*    numbers and numeric strings taken as floats) and raises otherwise;   *)
(*    str(e) of an exception carries its status and detail.                *)
(***************************************************************************)
EXTENDS Integers, Sequences, FiniteSets, TLC

VARIABLES
    \* ---- one endpoint call (POST /grade or POST /grade/batch)
    endpoint,   \* "grade", "batch", or "unit" when only the parser is exercised
    requests,   \* the GradingRequest list of the call (one element for /grade)
    item,       \* index of the request being graded (the for loop of grade_batch)
    pc,         \* "start", "send", "wait", "done"
    attempt,    \* call_ollama's loop variable, 0 .. MAX_RETRIES - 1
    payload,    \* call_ollama's payload dict
    inflight,   \* backend requests issued and not yet answered or abandoned
    sent,       \* payloads posted by the current call_ollama invocation
    total,      \* backend requests issued by the endpoint call so far
    trace,      \* outcome of each attempt of the current call_ollama invocation
    ollama,     \* how the current call_ollama invocation ended
    calls,      \* per graded item: how grade_frq ended
    results,    \* grade_batch's results list
    http,       \* the endpoint's answer
    \* ---- parse_grading_response called on its own
    ptext, pmax, pqn, ppc, pout

vars == <<endpoint, requests, item, pc, attempt, payload, inflight, sent, total,
          trace, ollama, calls, results, http, ptext, pmax, pqn, ppc, pout>>

svcVars == <<endpoint, requests, item, pc, attempt, payload, inflight, sent,
             total, trace, ollama, calls, results, http>>

unitVars == <<ptext, pmax, pqn, ppc, pout>>

-----------------------------------------------------------------------------
(* Program constants and model bounds *)

MAX_RETRIES == 3

MinPoints == 1

MaxPoints == 100

\* longest reply text (in tokens) enumerated exhaustively for the parser
MaxLen == 5

\* longest request list given to POST /grade/batch
MaxBatch == 2

-----------------------------------------------------------------------------
(* Floats and JSON scalars *)

Num(n, d) == [ty |-> "num", n |-> n, d |-> d, s |-> ""]
Int2F(n) == Num(n, 1)
NaN == [ty |-> "nan", n |-> 0, d |-> 1, s |-> ""]
PosInf == [ty |-> "inf", n |-> 0, d |-> 1, s |-> ""]
NegInf == [ty |-> "ninf", n |-> 0, d |-> 1, s |-> ""]
Str(x) == [ty |-> "str", n |-> 0, d |-> 1, s |-> x]
Null == [ty |-> "null", n |-> 0, d |-> 1, s |-> ""]
None == [ty |-> "none", n |-> 0, d |-> 1, s |-> ""]

IsFloat(v) == v.ty \in {"num", "nan", "inf", "ninf"}

\* Python's a < b on floats: every comparison with NaN is False
Lt(a, b) ==
    CASE a.ty = "nan" \/ b.ty = "nan" -> FALSE
      [] a.ty = "ninf" -> b.ty # "ninf"
      [] a.ty = "inf" -> FALSE
      [] b.ty = "ninf" -> FALSE
      [] b.ty = "inf" -> TRUE
      [] OTHER -> a.n * b.d < b.n * a.d

Le(a, b) ==
    CASE a.ty = "nan" \/ b.ty = "nan" -> FALSE
      [] OTHER -> ~Lt(b, a)

\* Python's min(a, b) and max(a, b): the first argument is kept unless the
\* second is strictly smaller (larger)
PyMin(a, b) == IF Lt(b, a) THEN b ELSE a
PyMax(a, b) == IF Lt(a, b) THEN b ELSE a

\* a / b for a finite b > 0
Div(a, b) == IF a.ty = "num" THEN Num(a.n * b.d, a.d * b.n) ELSE a

\* a * k for an integer k > 0
Times(a, k) == IF a.ty = "num" THEN Num(a.n * k, a.d) ELSE a

\* a / b rounded to the nearest integer, ties to even (b > 0)
RoundDiv(a, b) ==
    LET f == a \div b
        r == a % b
    IN  CASE 2 * r < b -> f
          [] 2 * r > b -> f + 1
          [] OTHER -> IF f % 2 = 0 THEN f ELSE f + 1

\* round(x, 2)
Round2(x) == IF x.ty = "num" THEN Num(RoundDiv(x.n * 100, x.d), 100) ELSE x


-----------------------------------------------------------------------------
(* Reply texts *)

LB == [t |-> "lb", k |-> "", v |-> None]
RB == [t |-> "rb", k |-> "", v |-> None]
COMMA == [t |-> "comma", k |-> "", v |-> None]
Mem(key, val) == [t |-> "mem", k |-> key, v |-> val]
Key(key) == [t |-> "key", k |-> key, v |-> None]
\* free text; v is the number a "score: <n>" phrase in it states, or None
Txt(val) == [t |-> "txt", k |-> "", v |-> val]

\* tokens every reply text up to MaxLen is built from
Alphabet ==
    { LB, RB, COMMA,
      Mem("score", Int2F(15)),
      Mem("score", Null),
      Key("rubric_alignment"),
      Mem("c1", Num(3, 2)),
      Txt(Int2F(7)) }

ShortTexts == UNION { [1..n -> Alphabet] : n \in 0..MaxLen }

\* the reply the grading prompt asks for:
\*   {"score": s, "feedback": "Good work", "rubric_alignment": {"c1": c}}
Asked(s, c) ==
    << LB, Mem("score", s), COMMA, Mem("feedback", Str("Good work")), COMMA,
       Key("rubric_alignment"), LB, Mem("c1", c), RB, RB >>

Obj(m) == << LB, m, RB >>

\* replies of the backend used by the endpoint model
Replies ==
    { << Txt(None) >> \o Asked(Int2F(8), Num(1, 2)),      \* prose, then the JSON
      Asked(Int2F(15), Num(3, 2)),                       \* values out of range
      Obj(Mem("score", Null)),                           \* {"score": null}
      << Txt(Int2F(7)) >> }                              \* Score: 7 out of 10

\* further reply texts the parser is run on
LongTexts ==
    Replies \cup
    { <<>>,
      << LB, Txt(None), RB >> \o Obj(Mem("score", Int2F(8))),   \* {oops} {"score": 8}
      Asked(Int2F(8), Num(1, 2)),
      Asked(NaN, Int2F(1)), Asked(PosInf, Int2F(0)), Asked(NegInf, Int2F(-1)),
      Asked(Int2F(-3), Str("8")), Asked(Num(15, 2), Str("high")),
      Asked(Str("8"), Null), Asked(Str("high"), Int2F(1)),
      Obj(Mem("score", Int2F(8))) \o << Txt(Int2F(3)) >>,
      << Txt(Int2F(70)) >>,
      << Txt(None) >>,
      << LB, RB >> \o Obj(Mem("score", Int2F(8))),
      << LB, Mem("score", Int2F(8)), COMMA, Mem("score", Int2F(3)), RB >>,
      << LB, Mem("score", Int2F(8)), COMMA, RB >>,
      << LB, Mem("score", Int2F(8)), COMMA, Mem("feedback", Null), RB >>,
      << LB, Mem("score", Int2F(8)), COMMA, Mem("rubric_alignment", Str("high")), RB >>,
      << LB, Mem("score", Int2F(8)), COMMA, Key("feedback"), LB, RB, RB >>,
      << LB, Mem("feedback", Str("Score: 9 given")) >>,
      << LB, Key("a"), LB, Mem("score", Int2F(8)), RB, RB >>,
      \* {"score": 8, "a": {"b": {"c1": 1}}}
      << LB, Mem("score", Int2F(8)), COMMA, Key("a"), LB, Key("b"), LB,
         Mem("c1", Int2F(1)), RB, RB, RB >> }

Texts == ShortTexts \cup LongTexts


-----------------------------------------------------------------------------
\* re.search(r'\{[^{}]*(?:\{[^{}]*\}[^{}]*)*\}', llm_response, re.DOTALL)

\* The classes { , } and [^{}] are disjoint, so from a given opening brace the
\* expression can match in one way only: depth is 1 inside the outer braces
\* and 2 inside a group \{[^{}]*\}; a third opening brace, or the end of the
\* text, fails the match from that start. The result is the index of the
\* closing brace, 0 for no match.
RECURSIVE Scan(_, _, _)
Scan(text, j, depth) ==
    IF j > Len(text) THEN 0
    ELSE CASE text[j].t = "lb" -> IF depth = 1 THEN Scan(text, j + 1, 2) ELSE 0
           [] text[j].t = "rb" -> IF depth = 2 THEN Scan(text, j + 1, 1) ELSE j
           [] OTHER -> Scan(text, j + 1, depth)

MatchAt(text, i) == IF text[i].t = "lb" THEN Scan(text, i + 1, 1) ELSE 0

SetMin(S) == CHOOSE x \in S : \A y \in S : x <= y

\* re.search: the leftmost start that matches
JsonSearch(text) ==
    LET starts == { i \in 1..Len(text) : MatchAt(text, i) # 0 }
    IN  IF starts = {}
        THEN [found |-> FALSE, from |-> 0, to |-> 0]
        ELSE [found |-> TRUE, from |-> SetMin(starts),
              to |-> MatchAt(text, SetMin(starts))]

-----------------------------------------------------------------------------
(* json.loads on the matched text *)

\* A dict maps keys to entries [v, o]: v the scalar value, or ObjV with o the
\* nested dict.
EmptyDict == [x \in {} |-> None]
ObjV == [ty |-> "obj", n |-> 0, d |-> 1, s |-> ""]
Scalar(val) == [v |-> val, o |-> EmptyDict]
Nested(dict) == [v |-> ObjV, o |-> dict]

\* d[k] = e; a repeated key keeps the last value, as json.loads does
Put(d, k, e) == [x \in DOMAIN d \cup {k} |-> IF x = k THEN e ELSE d[x]]

ParseFail == [ok |-> FALSE, d |-> EmptyDict, next |-> 0]

RECURSIVE ParseObj(_, _)
RECURSIVE ParseMembers(_, _, _)
\* an object starting at token i: [ok, d, next], next the index after its }
ParseObj(toks, i) ==
    IF i > Len(toks) \/ toks[i].t # "lb" THEN ParseFail
    ELSE IF i + 1 <= Len(toks) /\ toks[i + 1].t = "rb"
         THEN [ok |-> TRUE, d |-> EmptyDict, next |-> i + 2]
         ELSE ParseMembers(toks, i + 1, EmptyDict)

\* "key": value pairs separated by commas, up to the closing brace
ParseMembers(toks, i, acc) ==
    IF i > Len(toks) THEN ParseFail
    ELSE LET tok == toks[i]
             sub == ParseObj(toks, i + 1)
             pair == CASE tok.t = "mem" ->
                            [ok |-> TRUE, e |-> Scalar(tok.v), next |-> i + 1]
                       [] tok.t = "key" ->
                            [ok |-> sub.ok, e |-> Nested(sub.d), next |-> sub.next]
                       [] OTHER ->
                            [ok |-> FALSE, e |-> Scalar(None), next |-> 0]
         IN  IF ~pair.ok \/ pair.next > Len(toks) THEN ParseFail
             ELSE CASE toks[pair.next].t = "comma" ->
                         ParseMembers(toks, pair.next + 1, Put(acc, tok.k, pair.e))
                    [] toks[pair.next].t = "rb" ->
                         [ok |-> TRUE, d |-> Put(acc, tok.k, pair.e),
                          next |-> pair.next + 1]
                    [] OTHER -> ParseFail

\* json.loads(s): s must be one object and nothing else; not ok is
\* json.JSONDecodeError
JsonLoads(toks) ==
    LET r == ParseObj(toks, 1)
    IN  IF r.ok /\ r.next = Len(toks) + 1 THEN r ELSE ParseFail

-----------------------------------------------------------------------------
\* re.search(r'score[:\s]+(\d+\.?\d*)', llm_response, re.IGNORECASE)

\* the number a "score: <n>" phrase inside a JSON string states
ScoreInStr(str) == IF str = "Score: 9 given" THEN Int2F(9) ELSE None

\* In a member "score": 8 the word score is followed by a quote, which
\* [:\s]+ does not match: only free text and string values can hit.
ScoreHit(tok) ==
    CASE tok.t = "txt" -> tok.v
      [] tok.t = "mem" /\ tok.v.ty = "str" -> ScoreInStr(tok.v.s)
      [] OTHER -> None

\* float(score_match.group(1)) of the leftmost hit, None without a hit
ScoreSearch(text) ==
    LET hits == { i \in 1..Len(text) : ScoreHit(text[i]).ty = "num" }
    IN  IF hits = {} THEN None ELSE ScoreHit(text[SetMin(hits)])


-----------------------------------------------------------------------------
(* Exceptions, GradingRequest, GradingResponse *)

NoExc == [type |-> "", status |-> 0, detail |-> ""]
PyExc(type) == [type |-> type, status |-> 0, detail |-> ""]
HTTPException(status, detail) ==
    [type |-> "HTTPException", status |-> status, detail |-> detail]

\* question_number is Optional[str]
NoQn == "None"
QuestionNumbers == { NoQn, "Q1" }

\* max_points: int, ge=1, le=100
SamplePoints == { MinPoints, 10, MaxPoints }

GradingRequest(mp, qn) ==
    [student_response |-> "essay", rubric |-> "key", question_prompt |-> "prompt",
     max_points |-> mp, question_number |-> qn]

\* the feedback string of a result: the raw reply text, a string of the
\* reply's JSON, or grade_batch's f"Error during grading: {str(e)}"
FbRaw(text) == [kind |-> "raw", s |-> "", raw |-> text, exc |-> NoExc]
FbStr(str) == [kind |-> "str", s |-> str, raw |-> <<>>, exc |-> NoExc]
FbErr(e) == [kind |-> "error", s |-> "Error during grading: ", raw |-> <<>>, exc |-> e]

GradingResponse(score, mp, pct, fb, ra, qn) ==
    [score |-> score, max_points |-> Int2F(mp), percentage |-> pct,
     feedback |-> fb, rubric_alignment |-> ra, question_number |-> qn]

NoResult == GradingResponse(Int2F(0), 0, Int2F(0), FbRaw(<<>>), EmptyDict, NoQn)

\* what a call ends with: a returned value or a raised exception
Returned(path, res) == [kind |-> "result", exc |-> NoExc, path |-> path, res |-> res]
Raised(path, e) == [kind |-> "raise", exc |-> e, path |-> path, res |-> NoResult]
NoOutcome == [kind |-> "none", exc |-> NoExc, path |-> "", res |-> NoResult]

-----------------------------------------------------------------------------
(* parse_grading_response *)

\* float(s) of a string: the number it spells, None for ValueError
FloatOfStr(str) == IF str = "8" THEN Int2F(8) ELSE None

\* float(x) of a JSON value: [exc, val]
Float(e) ==
    CASE IsFloat(e.v) -> [exc |-> NoExc, val |-> e.v]
      [] e.v.ty = "str" ->
           IF FloatOfStr(e.v.s).ty = "num"
           THEN [exc |-> NoExc, val |-> FloatOfStr(e.v.s)]
           ELSE [exc |-> PyExc("ValueError"), val |-> None]
      [] OTHER -> [exc |-> PyExc("TypeError"), val |-> None]

\* the clamp without its upper bound: max(0, score)
ClampNoUpper(score, mp) == PyMax(Int2F(0), score)

\* score = max(0, min(score, max_points))
Clamp(score, mp) == PyMax(Int2F(0), PyMin(score, Int2F(mp)))

\* percentage = (score / max_points) * 100 if max_points > 0 else 0, then
\* round(percentage, 2)
Percentage(score, mp) ==
    Round2(IF mp > 0 THEN Times(Div(score, Int2F(mp)), 100) ELSE Int2F(0))

\* feedback: str of GradingResponse
ValidFeedback(e) == e.v.ty = "str"

\* rubric_alignment: Dict[str, float] of GradingResponse; a value is taken
\* when float() takes it
ValidRubric(e) ==
    /\ e.v.ty = "obj"
    /\ \A k \in DOMAIN e.o : Float(e.o[k]).exc = NoExc

\* lines 176-194: the embedded JSON was loaded into data. float() raises
\* first; GradingResponse(...) then rejects a feedback that is no string
\* and a rubric_alignment that is no dict of floats. The default feedback,
\* llm_response, is a string.
FromJson(data, llm_response, max_points, question_number) ==
    LET raw == IF "score" \in DOMAIN data THEN data["score"] ELSE Scalar(Int2F(0))
        hasFb == "feedback" \in DOMAIN data
        ra == IF "rubric_alignment" \in DOMAIN data THEN data["rubric_alignment"]
              ELSE Nested(EmptyDict)
        score == Clamp(Float(raw).val, max_points)
    IN  CASE Float(raw).exc # NoExc -> Raised("json", Float(raw).exc)
          [] (hasFb /\ ~ValidFeedback(data["feedback"])) \/ ~ValidRubric(ra) ->
               Raised("json", PyExc("ValidationError"))
          [] OTHER ->
               Returned("json",
                   GradingResponse(score, max_points, Percentage(score, max_points),
                       IF hasFb THEN FbStr(data["feedback"].v.s)
                       ELSE FbRaw(llm_response),
                       [k \in DOMAIN ra.o |-> Float(ra.o[k]).val],
                       question_number))

\* lines 198-212: the fallback on the raw text
Fallback(llm_response, max_points, question_number) ==
    LET m == ScoreSearch(llm_response)
        score == Clamp(IF m.ty = "num" THEN m ELSE Int2F(0), max_points)
    IN  Returned("fallback",
            GradingResponse(score, max_points, Percentage(score, max_points),
                FbRaw(llm_response),
                [k \in {"overall"} |->
                    IF max_points > 0 THEN Div(score, Int2F(max_points))
                    ELSE Int2F(0)],
                question_number))

ParseGradingResponse(llm_response, max_points, question_number) ==
    LET m == JsonSearch(llm_response)
        data == JsonLoads(SubSeq(llm_response, m.from, m.to))
    IN  IF m.found /\ data.ok
        THEN FromJson(data.d, llm_response, max_points, question_number)
        ELSE Fallback(llm_response, max_points, question_number)

-----------------------------------------------------------------------------
(* call_ollama *)

\* create_grading_prompt: the two prompts; the user prompt embeds the four
\* inputs verbatim
CreateGradingPrompt(req) ==
    [system_prompt |-> "You are an expert AP exam grader",
     user_prompt |-> [question_prompt |-> req.question_prompt,
                      rubric |-> req.rubric,
                      student_response |-> req.student_response,
                      max_points |-> req.max_points]]

\* lines 73-90: the payload is built once, before the retry loop
Payload(req) ==
    [model |-> "phi3:mini",
     prompt |-> CreateGradingPrompt(req).user_prompt,
     stream |-> FALSE,
     options |-> [temperature |-> "0.1", top_p |-> "0.9", top_k |-> 40,
                  num_predict |-> 2000, repeat_penalty |-> "1.1", seed |-> 42,
                  num_thread |-> 4, num_gpu |-> 0],
     system |-> CreateGradingPrompt(req).system_prompt]

\* how one attempt can fail: httpx.TimeoutException; httpx.HTTPStatusError
\* from raise_for_status(); another httpx transport error (a refused
\* connection); response.json() failing on the body
FailureKinds == { "timeout", "http_status", "transport", "decode" }

Ok(text) == [kind |-> "ok", text |-> text]
Failed(kind) == [kind |-> kind, text |-> <<>>]

\* the except clause taken: lines 99-110
RaiseFor(kind) ==
    CASE kind = "timeout" -> HTTPException(504, "Ollama service timeout")
      [] kind = "http_status" -> HTTPException(502, "Ollama service error")
      [] OTHER -> HTTPException(500, "Internal error")

\* the test without its - 1: if attempt == MAX_RETRIES
LastAttemptOffByOne(a) == a = MAX_RETRIES

\* if attempt == MAX_RETRIES - 1
LastAttempt(a) == a = MAX_RETRIES - 1

\* a retry loop that never advances its counter
NextAttemptStuck(a) == a

\* for attempt in range(MAX_RETRIES): the next value of the loop variable
NextAttempt(a) == a + 1

\* how call_ollama ended
OllamaReturned(text) == [kind |-> "result", exc |-> NoExc, text |-> text]
OllamaRaised(e) == [kind |-> "raise", exc |-> e, text |-> <<>>]
NoCall == [kind |-> "none", exc |-> NoExc, text |-> <<>>]

-----------------------------------------------------------------------------
(* grade_frq and grade_batch *)

\* grade_frq without its "except HTTPException: raise" clause: every
\* exception becomes a 500
GradeFrqWrapAll(req, oc) ==
    LET parsed == ParseGradingResponse(oc.text, req.max_points, req.question_number)
    IN  IF oc.kind = "raise" \/ parsed.kind = "raise"
        THEN Raised("", HTTPException(500, "Grading failed"))
        ELSE parsed

\* grade_frq from the end of call_ollama on: an HTTPException passes through
\* (except HTTPException: raise), anything else raised becomes a 500
GradeFrq(req, oc) ==
    LET parsed == ParseGradingResponse(oc.text, req.max_points, req.question_number)
    IN  CASE oc.kind = "raise" -> Raised("", oc.exc)
          [] parsed.kind = "raise" ->
               Raised(parsed.path, HTTPException(500, "Grading failed"))
          [] OTHER -> parsed

\* the error response built without question_number=req.question_number
BatchItemNoEcho(req, frq) ==
    IF frq.kind = "result" THEN frq.res
    ELSE GradingResponse(Int2F(0), req.max_points, Int2F(0), FbErr(frq.exc),
                         EmptyDict, NoQn)

\* one iteration of grade_batch's loop: the result appended
BatchItem(req, frq) ==
    IF frq.kind = "result" THEN frq.res
    ELSE GradingResponse(Int2F(0), req.max_points, Int2F(0), FbErr(frq.exc),
                         EmptyDict, req.question_number)

\* the answer to POST /grade: 200 with the result, or the HTTPException's
\* status
GradeAnswer(frq) ==
    IF frq.kind = "result"
    THEN [status |-> 200, body |-> << frq.res >>, exc |-> NoExc]
    ELSE [status |-> frq.exc.status, body |-> <<>>, exc |-> frq.exc]

NoAnswer == [status |-> 0, body |-> <<>>, exc |-> NoExc]

\* the requests the endpoints are called with
AllRequests ==
    { GradingRequest(10, NoQn), GradingRequest(MinPoints, "Q1"), GradingRequest(10, "Q1") }

UnitIdle ==
    /\ ptext = <<>> /\ pmax = MinPoints /\ pqn = NoQn /\ ppc = "done"
    /\ pout = NoOutcome

Init ==
    /\ endpoint \in { "grade", "batch" }
    /\ requests \in UNION { [1..n -> AllRequests] : n \in 0..MaxBatch }
    /\ endpoint = "grade" => Len(requests) = 1
    /\ item = 1
    /\ pc = "start"
    /\ attempt = 0
    /\ payload = <<>>
    /\ inflight = 0
    /\ sent = <<>>
    /\ total = 0
    /\ trace = <<>>
    /\ ollama = NoCall
    /\ calls = <<>>
    /\ results = <<>>
    /\ http = NoAnswer
    /\ UnitIdle

\* grade_frq is entered for requests[item]; call_ollama builds its payload
StartItem ==
    /\ pc = "start"
    /\ item <= Len(requests)
    /\ payload' = Payload(requests[item])
    /\ attempt' = 0
    /\ sent' = <<>>
    /\ trace' = <<>>
    /\ ollama' = NoCall
    /\ pc' = "send"
    /\ UNCHANGED <<endpoint, requests, item, inflight, total, calls, results, http>>
    /\ UNCHANGED unitVars

\* the request posted as a task that is never awaited
SendNoAwait ==
    /\ pc = "send"
    /\ sent' = Append(sent, payload)
    /\ inflight' = inflight + 1
    /\ total' = total + 1
    /\ UNCHANGED <<endpoint, requests, item, pc, attempt, payload, trace, ollama,
                   calls, results, http>>
    /\ UNCHANGED unitVars

\* await client.post(url, json=payload)
Send ==
    /\ pc = "send"
    /\ sent' = Append(sent, payload)
    /\ inflight' = inflight + 1
    /\ total' = total + 1
    /\ pc' = "wait"
    /\ UNCHANGED <<endpoint, requests, item, attempt, payload, trace, ollama,
                   calls, results, http>>
    /\ UNCHANGED unitVars

\* call_ollama ended with oc: grade_frq runs to its end, and the endpoint
\* answers (/grade) or appends and moves to the next request (/grade/batch)
Finish(oc) ==
    /\ ollama' = oc
    /\ calls' = Append(calls, oc)
    /\ IF endpoint = "grade"
       THEN /\ http' = GradeAnswer(GradeFrq(requests[item], oc))
            /\ pc' = "done"
            /\ UNCHANGED <<item, results>>
       ELSE /\ results' = Append(results, BatchItem(requests[item], GradeFrq(requests[item], oc)))
            /\ item' = item + 1
            /\ pc' = "start"
            /\ UNCHANGED http

\* the backend answers 200 with a body holding the text
ReplyOk(text) ==
    /\ pc = "wait"
    /\ inflight' = inflight - 1
    /\ trace' = Append(trace, Ok(text))
    /\ Finish(OllamaReturned(text))
    /\ UNCHANGED <<endpoint, requests, attempt, payload, sent, total>>
    /\ UNCHANGED unitVars

\* the attempt fails: raise on the last attempt, else go round the loop
AttemptFails(kind) ==
    /\ pc = "wait"
    /\ inflight' = inflight - 1
    /\ trace' = Append(trace, Failed(kind))
    /\ IF LastAttempt(attempt)
       THEN /\ Finish(OllamaRaised(RaiseFor(kind)))
            /\ UNCHANGED attempt
       ELSE IF NextAttempt(attempt) < MAX_RETRIES
       THEN /\ attempt' = NextAttempt(attempt)
            /\ pc' = "send"
            /\ UNCHANGED <<item, ollama, calls, results, http>>
       ELSE /\ Finish(OllamaRaised(
                   HTTPException(500, "Failed to call Ollama after retries")))
            /\ UNCHANGED attempt
    /\ UNCHANGED <<endpoint, requests, payload, sent, total>>
    /\ UNCHANGED unitVars

\* grade_batch's loop is over: return results
BatchReturn ==
    /\ endpoint = "batch"
    /\ pc = "start"
    /\ item > Len(requests)
    /\ http' = [status |-> 200, body |-> results, exc |-> NoExc]
    /\ pc' = "done"
    /\ UNCHANGED <<endpoint, requests, item, attempt, payload, inflight, sent,
                   total, trace, ollama, calls, results>>
    /\ UNCHANGED unitVars

Next ==
    \/ StartItem
    \/ Send
    \/ \E text \in Replies : ReplyOk(text)
    \/ \E kind \in FailureKinds : AttemptFails(kind)
    \/ BatchReturn

Spec == Init /\ [][Next]_vars

-----------------------------------------------------------------------------
(* The parser called on its own *)

Idle ==
    /\ endpoint = "unit" /\ requests = <<>> /\ item = 0 /\ pc = "done"
    /\ attempt = 0 /\ payload = <<>> /\ inflight = 0 /\ sent = <<>>
    /\ total = 0 /\ trace = <<>> /\ ollama = NoCall /\ calls = <<>>
    /\ results = <<>> /\ http = NoAnswer

ParserInit ==
    /\ Idle
    /\ ptext \in Texts
    /\ pmax \in SamplePoints
    /\ pqn \in QuestionNumbers
    /\ ppc = "call"
    /\ pout = NoOutcome

ParseCall ==
    /\ ppc = "call"
    /\ pout' = ParseGradingResponse(ptext, pmax, pqn)
    /\ ppc' = "done"
    /\ UNCHANGED <<ptext, pmax, pqn>>
    /\ UNCHANGED svcVars

ParserNext == ParseCall

ParserSpec == ParserInit /\ [][ParserNext]_vars


-----------------------------------------------------------------------------
(* Properties *)

\* lo <= x <= hi for a float x and integers lo, hi; false for NaN and the
\* infinities
Within(x, lo, hi) == x.ty = "num" /\ lo * x.d <= x.n /\ x.n <= hi * x.d

IsZero(x) == x.ty = "num" /\ x.n = 0

AllFailed == \A k \in 1..Len(trace) : trace[k].kind # "ok"

\* the request at index i went wrong in the backend call or in the parser
ItemFailed(i) ==
    \/ calls[i].kind = "raise"
    \/ ParseGradingResponse(calls[i].text, requests[i].max_points,
                            requests[i].question_number).kind = "raise"

\* C1: every GradingResult returned by POST /grade, and every one in the list
\* POST /grade/batch builds and returns, has 0 <= score <= max_points of its
\* request, whichever parser path or batch error path produced it.
C1_ScoreWithinMaxPoints ==
    /\ \A i \in 1..Len(results) :
          Within(results[i].score, 0, requests[i].max_points)
    /\ \A i \in 1..Len(http.body) :
          Within(http.body[i].score, 0, requests[i].max_points)

\* C1 witness: a returned batch list holding a score the parser clamped from
\* 15 down to max_points = 10 and the zero score of a failed item.
C1_Witness ==
    /\ endpoint = "batch" /\ pc = "done" /\ Len(http.body) = 2
    /\ requests[1].max_points = 10
    /\ calls[1] = OllamaReturned(Asked(Int2F(15), Num(3, 2)))
    /\ http.body[1].score = Int2F(10)
    /\ calls[2].kind = "raise"
    /\ IsZero(http.body[2].score)

\* the same bound for the parser called on any reply text
ParserScoreWithinMaxPoints ==
    pout.kind = "result" => Within(pout.res.score, 0, pmax)

\* C2: whenever the backend call succeeds, whatever the reply text, POST
\* /grade answers 200 with a GradingResult, never an error status.
C2_MalformedReplyNeverAnError ==
    (endpoint = "grade" /\ pc = "done" /\ ollama.kind = "result")
        => (http.status = 200 /\ Len(http.body) = 1)

\* C3: whenever the reply text holds, anywhere in it, a valid JSON object
\* with a numeric "score" s, the parser returns by its primary path with
\* score = s clamped to [0, max_points].
C3_EmbeddedJsonScoreIsTaken ==
    ppc = "done" =>
        \A i \in 1..Len(ptext) : \A j \in i..Len(ptext) :
            LET obj == JsonLoads(SubSeq(ptext, i, j))
            IN  (obj.ok /\ "score" \in DOMAIN obj.d /\ obj.d["score"].v.ty = "num")
                    => /\ pout.kind = "result"
                       /\ pout.path = "json"
                       /\ pout.res.score =
                            PyMax(Int2F(0), PyMin(obj.d["score"].v, Int2F(pmax)))

\* C4: when all 3 attempts of the grading call time out, POST /grade answers
\* 504 (gateway timeout), not 500.
C4_TimeoutsAnswer504 ==
    (/\ endpoint = "grade" /\ pc = "done"
     /\ Len(trace) = 3
     /\ \A k \in 1..Len(trace) : trace[k].kind = "timeout")
        => (http.status = 504 /\ http.body = <<>>)

\* C4 witness: POST /grade has answered after three timed-out attempts.
C4_Witness ==
    /\ endpoint = "grade" /\ pc = "done"
    /\ trace = << Failed("timeout"), Failed("timeout"), Failed("timeout") >>
    /\ http.status = 504

\* C5: one invocation of call_ollama issues at most 3 requests, all with the
\* same payload; an attempt that succeeded is the last one, no request
\* follows it and its text is what call_ollama returns; after 3 failed
\* attempts call_ollama has raised; and the call never hangs short of its
\* end: a request to post can be posted, and an outstanding request can
\* always end by the client's timeout.
C5_BoundedRetries ==
    /\ Len(sent) <= 3
    /\ Len(trace) <= Len(sent)
    /\ \A k \in 1..Len(sent) : sent[k] = sent[1]
    /\ \A k \in 1..Len(trace) :
          trace[k].kind = "ok" =>
              /\ k = Len(trace) /\ Len(sent) = k
              /\ pc \notin { "send", "wait" }
              /\ ollama = OllamaReturned(trace[k].text)
    /\ (Len(trace) = 3 /\ AllFailed) => (ollama.kind = "raise" /\ pc \notin { "send", "wait" })
    /\ ollama.kind = "raise" => AllFailed
    /\ pc = "send" => ENABLED Send
    /\ pc = "wait" => ENABLED AttemptFails("timeout")

\* C5 witness: the third attempt succeeded after two failures, and
\* call_ollama returned its text.
C5_Witness ==
    /\ Len(trace) = 3 /\ Len(sent) = 3
    /\ trace[1].kind # "ok" /\ trace[2].kind # "ok" /\ trace[3].kind = "ok"
    /\ ollama.kind = "result"

\* C6: an attempt is followed by another request only if it failed with a
\* timeout or a transport error; after a backend HTTP error status or an
\* undecodable body no further request is issued.
C6_RetryOnlyOnTimeoutOrTransport ==
    \A k \in 1..Len(trace) :
        Len(sent) > k => trace[k].kind \in { "timeout", "transport" }

\* C7: POST /grade/batch answers 200 with one result per request, in request
\* order, each echoing its request's max_points and question_number; a
\* failed item has score 0, percentage 0 and the error in its feedback; any
\* other item is the result POST /grade returns for the same reply.
C7_BatchIsolatesFailures ==
    /\ endpoint = "batch" => http.status \in { 0, 200 }
    /\ (endpoint = "batch" /\ pc = "done") =>
          /\ http.status = 200
          /\ Len(http.body) = Len(requests)
          /\ \A i \in 1..Len(requests) :
                LET r == http.body[i]
                    req == requests[i]
                    parsed == ParseGradingResponse(calls[i].text, req.max_points,
                                                   req.question_number)
                    failed == calls[i].kind = "raise" \/ parsed.kind = "raise"
                    alone == GradeAnswer(GradeFrq(req, calls[i]))
                IN  /\ r.max_points = Int2F(req.max_points)
                    /\ r.question_number = req.question_number
                    /\ failed =>
                          /\ alone.status # 200
                          /\ IsZero(r.score) /\ IsZero(r.percentage)
                          /\ r.feedback.kind = "error"
                          /\ r.feedback.exc = alone.exc
                    /\ ~failed =>
                          /\ alone.status = 200
                          /\ r = alone.body[1]
                          /\ r = parsed.res

\* C7 witness: a returned batch of two whose first item failed in the backend
\* and whose second item was graded.
C7_Witness ==
    /\ endpoint = "batch" /\ pc = "done" /\ Len(requests) = 2
    /\ requests[1].question_number = "Q1"
    /\ calls[1].kind = "raise"
    /\ http.body[1].feedback.kind = "error"
    /\ ~ItemFailed(2)
    /\ http.body[2].score = Int2F(8)

\* C8: every rubric_alignment value of a result the parser returns lies in
\* [0, 1], whatever the reply text.
C8_RubricAlignmentInUnitInterval ==
    pout.kind = "result" =>
        \A k \in DOMAIN pout.res.rubric_alignment :
            Within(pout.res.rubric_alignment[k], 0, 1)

\* C9: one endpoint call has at most one backend request outstanding; a
\* request for item i is issued and outstanding only when the results of the
\* i - 1 items before it have been appended; and the call issues at most
\* 3 * n requests for n items.
C9_BatchIsSequential ==
    /\ inflight \in { 0, 1 }
    /\ inflight = 1 <=> pc = "wait"
    /\ pc \in { "send", "wait" } => Len(calls) = item - 1
    /\ endpoint = "batch" => Len(results) = Len(calls)
    /\ total <= 3 * Len(requests)
    /\ total <= 3 * (Len(calls) + 1)

\* C9 witness: the request of the second item's third attempt is outstanding,
\* the sixth of the call, with the first item's result appended.
C9_Witness ==
    /\ endpoint = "batch" /\ item = 2 /\ pc = "wait"
    /\ Len(results) = 1 /\ attempt = 2 /\ total = 6 /\ inflight = 1

\* C10: after 3 failed attempts call_ollama raises the failure of the third
\* attempt alone: 504 for a timeout, 502 for a backend HTTP error status,
\* 500 otherwise; and it raises only after the third attempt.
C10_FinalAttemptDecides ==
    /\ (Len(trace) = 3 /\ AllFailed) =>
          /\ ollama.kind = "raise"
          /\ ollama.exc.status =
                CASE trace[3].kind = "timeout" -> 504
                  [] trace[3].kind = "http_status" -> 502
                  [] OTHER -> 500
    /\ ollama.kind = "raise" => Len(trace) = 3

\* C10 witness: a timeout and a backend HTTP error were swallowed, the third
\* attempt's undecodable body raised 500.
C10_Witness ==
    /\ trace = << Failed("timeout"), Failed("http_status"), Failed("decode") >>
    /\ ollama.kind = "raise"
    /\ ollama.exc.status = 500

=============================================================================
